---- MODULE Spec2Model ----
(***************************************************************************)
(* A model of the llamajump reverse proxy (src/main.py): the catch-all     *)
(* handler proxy(), the stream classifier is_streaming_request() and the   *)
(* streaming forwarder proxy_streaming_response() with its generator       *)
(* stream_generator().  Flask runs the handler threaded (app.run(          *)
(* threaded=True)), so several requests are in flight at once; each one    *)
(* is a process of the model.                                              *)
(***************************************************************************)
EXTENDS Integers, Sequences, FiniteSets, TLC

(***************************************************************************)
(* Bounds of the model.                                                    *)
(***************************************************************************)
\* the longest run of items one upstream body iterator hands out
MaxChunks == 2
\* the largest number of parameters in an inbound query string
MaxQuery == 2
\* the largest number of headers on an inbound request
MaxInHeaders == 2
\* the longest chain of redirects an upstream call is seen to follow
MaxRedirects == 1

\* the requests in flight (two threads of the threaded server)
Reqs == {"r1", "r2"}

(***************************************************************************)
(* Configuration.                                                          *)
(***************************************************************************)
LLAMA_SERVER == "http://localhost:9997"

(***************************************************************************)
(* Headers: a header list is a sequence of <<name, value>> pairs, as       *)
(* resp.headers.items() yields them.                                       *)
(***************************************************************************)
lower(key) ==
    CASE key = "X-Test" -> "x-test"
      [] key = "Content-Length" -> "content-length"
      [] key = "connection" -> "connection"
      [] key = "Connection" -> "connection"
      [] key = "Cache-Control" -> "cache-control"
      [] key = "CONTENT-ENCODING" -> "content-encoding"
      [] key = "Transfer-Encoding" -> "transfer-encoding"
      [] key = "Content-Type" -> "content-type"
      [] key = "Host" -> "host"
      [] key = "Accept" -> "accept"
      [] key = "Location" -> "location"
      [] OTHER -> key

excluded_headers ==
    {"content-encoding", "content-length", "transfer-encoding", "connection"}

\* filter_headers comparing the names as received, without lower()
filter_headers_case_sensitive(hs) ==
    SelectSeq(hs, LAMBDA kv : kv[1] \notin excluded_headers)

\* the list comprehension of lines 98-101 and 160-163
filter_headers(hs) ==
    SelectSeq(hs, LAMBDA kv : lower(kv[1]) \notin excluded_headers)

\* resp.headers.get(name, default): the lookup ignores letter case
headers_get(hs, lname, default) ==
    IF \E i \in 1..Len(hs) : lower(hs[i][1]) = lname
    THEN hs[CHOOSE i \in 1..Len(hs) : lower(hs[i][1]) = lname][2]
    ELSE default

\* the header list the buffered path hands to Response (lines 159-163)
response_headers(hs) == filter_headers(hs)

\* the header list the streaming path hands to Response (lines 97-104)
streaming_response_headers(hs) ==
    Append(Append(filter_headers(hs), <<"Cache-Control", "no-cache">>),
           <<"Connection", "keep-alive">>)

(***************************************************************************)
(* What the upstream may answer.                                           *)
(***************************************************************************)
Statuses == {200, 404}

HeaderLists ==
    { << <<"X-Test", "1">> >>,
      << <<"Content-Length", "5">>, <<"X-Test", "1">>,
         <<"connection", "close">>, <<"Cache-Control", "max-age=60">> >>,
      << <<"CONTENT-ENCODING", "gzip">>, <<"Content-Type", "text/event-stream">>,
         <<"Transfer-Encoding", "chunked">>, <<"Connection", "close">> >> }

\* an upstream answer that redirects
RedirectHeads ==
    { [status |-> 302,
       headers |-> << <<"Location", "/next">>, <<"Content-Length", "0">> >>] }

\* the heads a call that follows no redirect may come back with
BufferedHeads == [status : Statuses, headers : HeaderLists] \cup RedirectHeads

\* the heads a call that follows redirects comes back with
StreamingHeads == [status : Statuses, headers : HeaderLists]

\* allow_redirects following redirects on both paths
allow_redirects_always(streaming) == TRUE

\* whether the upstream call follows redirects: allow_redirects=False on
\* the buffered call (line 153), the default of requests.request, True, on
\* the streaming call (lines 87-95)
allow_redirects(streaming) == streaming

\* resp.content of a buffered answer
Contents == {"", "hello"}

\* what one step of resp.iter_content() may hand out; "" is an empty item
Items == {"a", "b", ""}

(***************************************************************************)
(* Exceptions of the requests library and their base classes.              *)
(***************************************************************************)
Bases(e) ==
    CASE e = "ConnectionError" -> {"ConnectionError", "RequestException", "Exception"}
      [] e = "ConnectTimeout" ->
            {"ConnectTimeout", "ConnectionError", "Timeout", "RequestException", "Exception"}
      [] e = "ReadTimeout" -> {"ReadTimeout", "Timeout", "RequestException", "Exception"}
      [] e = "TooManyRedirects" -> {"TooManyRedirects", "RequestException", "Exception"}
      [] e = "InvalidSchema" -> {"InvalidSchema", "RequestException", "Exception"}
      [] e = "ChunkedEncodingError" ->
            {"ChunkedEncodingError", "RequestException", "Exception"}
      [] OTHER -> {}

isinstance(e, cls) == cls \in Bases(e)

\* what requests.request(..., allow_redirects=False, timeout=300) may raise
BufferedExceptions == {"ConnectionError", "ConnectTimeout", "ReadTimeout", "InvalidSchema"}

\* what requests.request(..., stream=True, timeout=(10, None)) may raise
StreamingExceptions ==
    {"ConnectionError", "ConnectTimeout", "TooManyRedirects", "InvalidSchema"}

\* what resp.iter_content() may raise while the body is read
IterExceptions == {"ConnectionError", "ChunkedEncodingError"}

(***************************************************************************)
(* The caller-visible response: status, the header list and mimetype       *)
(* handed to Response, and the items written to the body so far.           *)
(***************************************************************************)
Chunk(c) == [kind |-> "chunk", data |-> c, error |-> "", message |-> <<>>]

\* the body jsonify({'error': ..., 'message': ...}) produces
Json(err, msg) == [kind |-> "json", data |-> "", error |-> err, message |-> msg]

NoResponse == [status |-> 0, headers |-> <<>>, mimetype |-> "", body |-> <<>>]

\* return jsonify({...}), code
jsonify(err, msg, code) ==
    [status |-> code, headers |-> <<>>, mimetype |-> "application/json",
     body |-> <<Json(err, msg)>>]

NoUpstream == [status |-> 0, headers |-> <<>>]

\* the body item an in-stream error event is: f"data: {error_response}\n\n"
SseEvent(err, msg) == [kind |-> "sse", data |-> "", error |-> err, message |-> msg]

\* the status-line marker f"HTTP/1.1 {resp.status_code} {resp.reason}\n"
StatusLine(status) ==
    [kind |-> "status-line", data |-> "", error |-> "", message |-> <<status>>]

(***************************************************************************)
(* The upstream URL.  A URL is the sequence of its pieces of text; a query *)
(* string is the sequence of its parameters as written, "&" between them.  *)
(***************************************************************************)
Paths == {"", "v1/completions"}

ParamTexts == {"a=1", "a=2", "b=x%20y", "b=x+y"}

RECURSIVE SeqsUpTo(_, _)
SeqsUpTo(S, n) ==
    IF n = 0 THEN {<<>>}
    ELSE LET shorter == SeqsUpTo(S, n - 1)
         IN  shorter \cup {Append(q, x) : q \in shorter, x \in S}

QueryStrings == SeqsUpTo(ParamTexts, MaxQuery)

\* the text of a query string: its parameters with "&" between them
RECURSIVE join(_)
join(qs) ==
    IF qs = <<>> THEN <<>>
    ELSE IF Len(qs) = 1 THEN qs
    ELSE <<Head(qs), "&">> \o join(Tail(qs))

\* request.args: one parameter parsed and percent-decoded, <<key, value>>
parse_param(t) ==
    CASE t = "a=1" -> <<"a", "1">>
      [] t = "a=2" -> <<"a", "2">>
      [] t = "b=x%20y" -> <<"b", "x y">>
      [] t = "b=x+y" -> <<"b", "x y">>

\* urlencode() of one <<key, value>> pair: a space is written "+"
urlencode(kv) ==
    CASE kv = <<"a", "1">> -> "a=1"
      [] kv = <<"a", "2">> -> "a=2"
      [] kv = <<"b", "x y">> -> "b=x+y"

\* request.args.items() as requests reads the mapping: the first value of
\* each key, in the order the keys first appear
RECURSIVE args_items(_, _)
args_items(qs, seen) ==
    IF qs = <<>> THEN <<>>
    ELSE LET kv == parse_param(Head(qs))
         IN  IF kv[1] \in seen THEN args_items(Tail(qs), seen)
             ELSE <<kv>> \o args_items(Tail(qs), seen \cup {kv[1]})

\* the params= argument of the upstream call, encoded by requests
enc_params(qs) ==
    LET items == args_items(qs, {})
    IN  join([i \in 1..Len(items) |-> urlencode(items[i])])

\* lines 130-132
target_url(path, query_string) ==
    <<LLAMA_SERVER, "/", path>> \o
        (IF query_string # <<>> THEN <<"?">> \o join(query_string) ELSE <<>>)

\* requests.request(url=target_url, params=request.args): the URL requested
\* is the url with the encoded params added to its query
prepare_url(url, qs) ==
    IF enc_params(qs) = <<>> THEN url
    ELSE IF \E i \in 1..Len(url) : url[i] = "?"
         THEN url \o <<"&">> \o enc_params(qs)
         ELSE url \o <<"?">> \o enc_params(qs)

NoUrl ==
    [phase |-> "none", path |-> "", query_string |-> <<>>, streaming |-> FALSE,
     target_url |-> <<>>, requested |-> <<>>]

\* the inbound header list under examination and the forwarding header set
NoFwd ==
    [phase |-> "none", inbound |-> <<>>, streaming |-> FALSE,
     headers |-> <<>>, sent |-> <<>>]

\* the inbound request under classification and the classifier's outcome
NoCls ==
    [phase |-> "none", accept |-> <<>>, stream_param |-> "",
     body |-> [is_json |-> FALSE, parse |-> "malformed", stream |-> "absent"],
     raised |-> FALSE, verdict |-> FALSE]

VARIABLES pc, hist, mode, up, exc, received, out, calls, first, gone, url, fwd, cls

\* the state of the requests in flight
reqvars == <<pc, hist, mode, up, exc, received, out, calls, first, gone>>

vars == <<reqvars, url, fwd, cls>>

Init ==
    /\ pc = [r \in Reqs |-> "Idle"]
    /\ hist = [r \in Reqs |-> <<"Idle">>]
    /\ mode = [r \in Reqs |-> FALSE]
    /\ up = [r \in Reqs |-> NoUpstream]
    /\ exc = [r \in Reqs |-> ""]
    /\ received = [r \in Reqs |-> <<>>]
    /\ out = [r \in Reqs |-> NoResponse]
    /\ calls = [r \in Reqs |-> 0]
    /\ first = [r \in Reqs |-> NoUpstream]
    /\ gone = [r \in Reqs |-> FALSE]
    /\ url = NoUrl
    /\ fwd = NoFwd
    /\ cls = NoCls

goto(r, s) ==
    /\ pc' = [pc EXCEPT ![r] = s]
    /\ hist' = [hist EXCEPT ![r] = Append(@, s)]

(***************************************************************************)
(* The stream classifier.  An inbound request carries, as far as the       *)
(* classifier looks: the Accept header (the media ranges it lists, <<>>    *)
(* when absent), the raw stream query parameter ("" when absent) and the   *)
(* body: whether the content type announces JSON (request.is_json), what   *)
(* parsing gives ("malformed", "dict", "list") and the value under the     *)
(* key stream of a parsed mapping ("absent" when the key is missing).      *)
(***************************************************************************)
AcceptHeaders ==
    { <<>>, <<"application/json">>, <<"text/event-stream">>,
      <<"application/x-ndjson", "*/*">> }

StreamParams == {"", "true", "TRUE", "Yes", "1", "0"}

JsonValues == {"absent", "true", "false", "null", "0", "1", "'no'"}

Bodies ==
    [is_json : BOOLEAN, parse : {"malformed", "dict", "list"}, stream : JsonValues]

InboundRequests == [accept : AcceptHeaders, stream_param : StreamParams, body : Bodies]

\* str_lower leaving the text as received
str_as_received(s) == s

\* str.lower() on the values of the stream parameter
str_lower(s) ==
    CASE s = "TRUE" -> "true"
      [] s = "Yes" -> "yes"
      [] OTHER -> s

\* needle in accept_header
contains(accept, needle) == \E i \in 1..Len(accept) : accept[i] = needle

\* truthy taking only the JSON literal true
truthy_only_true(v) == v = "true"

\* the truth value Python gives a parsed JSON value
truthy(v) == v \in {"true", "1", "'no'"}

\* request.get_json() (line 36): what it raises, "" when it returns
get_json_raises(b) == IF b.parse = "malformed" THEN "BadRequest" ELSE ""

\* the bare except: of line 39 catches whatever is raised
json_except(e) == TRUE

\* data.get('stream', False) of lines 34-40, as the truth value it carries
body_stream(b) ==
    IF ~b.is_json THEN FALSE
    ELSE IF get_json_raises(b) # "" THEN FALSE
    ELSE IF b.parse = "dict" /\ b.stream # "absent" THEN truthy(b.stream)
    ELSE FALSE

\* an exception leaves is_streaming_request(): one raised at line 36 that
\* the except clause does not catch
is_streaming_request_raises(req) ==
    /\ req.body.is_json
    /\ get_json_raises(req.body) # ""
    /\ ~json_except(get_json_raises(req.body))

is_streaming_request(req) ==
    \/ contains(req.accept, "text/event-stream")
    \/ contains(req.accept, "application/x-ndjson")
    \/ str_lower(req.stream_param) \in {"true", "1", "yes"}
    \/ body_stream(req.body)

(***************************************************************************)
(* The handler.                                                            *)
(***************************************************************************)
\* proxy(), lines 130-155: classify the request and start the upstream call
proxy(r) ==
    /\ pc[r] = "Idle"
    /\ \E req \in InboundRequests :
          /\ mode' = [mode EXCEPT ![r] = is_streaming_request(req)]
          /\ goto(r, IF is_streaming_request(req) THEN "Connecting" ELSE "Calling")
    /\ calls' = [calls EXCEPT ![r] = 1]
    /\ UNCHANGED <<up, exc, received, out, first, gone, url, fwd, cls>>

\* requests follows a redirect the upstream answered with: one more call
follow_redirect(r) ==
    /\ pc[r] \in {"Calling", "Connecting"}
    /\ allow_redirects(mode[r])
    /\ calls[r] <= MaxRedirects
    /\ \E h \in RedirectHeads :
          first' = [first EXCEPT ![r] = IF @ = NoUpstream THEN h ELSE @]
    /\ calls' = [calls EXCEPT ![r] = @ + 1]
    /\ UNCHANGED <<pc, hist, mode, up, exc, received, out, gone, url, fwd, cls>>

\* buffered path, lines 157-169: the upstream answered
buffered_return(r) ==
    /\ pc[r] = "Calling"
    /\ \E head \in BufferedHeads, content \in Contents :
          /\ up' = [up EXCEPT ![r] = head]
          /\ first' = [first EXCEPT ![r] = IF @ = NoUpstream THEN head ELSE @]
          /\ received' = [received EXCEPT ![r] = <<content>>]
          /\ out' = [out EXCEPT ![r] =
                        [status |-> head.status,
                         headers |-> response_headers(head.headers),
                         mimetype |-> "", body |-> <<Chunk(content)>>]]
    /\ goto(r, "Responded")
    /\ UNCHANGED <<mode, exc, calls, gone, url, fwd, cls>>

\* buffered_error without the clause for ConnectionError
buffered_error_no_connection_clause(e) ==
    IF isinstance(e, "Timeout")
    THEN jsonify("Timeout error", <<"Request to llama.cpp server timed out">>, 504)
    ELSE jsonify("Proxy error", <<e>>, 500)

\* the except clauses of lines 171-190, tried in the order written
buffered_error(e) ==
    IF isinstance(e, "ConnectionError")
    THEN jsonify("Connection error",
                 <<"Unable to connect to llama.cpp server at ", LLAMA_SERVER>>, 502)
    ELSE IF isinstance(e, "Timeout")
    THEN jsonify("Timeout error", <<"Request to llama.cpp server timed out">>, 504)
    ELSE jsonify("Proxy error", <<e>>, 500)

\* buffered path, lines 171-190: the upstream call raised
buffered_raise(r) ==
    /\ pc[r] = "Calling"
    /\ \E e \in BufferedExceptions :
          /\ exc' = [exc EXCEPT ![r] = e]
          /\ out' = [out EXCEPT ![r] = buffered_error(e)]
    /\ goto(r, "Responded")
    /\ UNCHANGED <<mode, up, received, calls, first, gone, url, fwd, cls>>

\* streaming_setup_error answering as the buffered path does
streaming_setup_error_as_buffered(e) == buffered_error(e)

\* the except clause of lines 118-123
streaming_setup_error(e) == jsonify("Streaming setup error", <<e>>, 500)

\* proxy_streaming_response appending to one header list kept for all
\* requests
proxy_streaming_response_shared_list(r) ==
    /\ pc[r] = "Connecting"
    /\ \E head \in StreamingHeads :
          /\ up' = [up EXCEPT ![r] = head]
          /\ first' = [first EXCEPT ![r] = IF @ = NoUpstream THEN head ELSE @]
          /\ out' = [out EXCEPT ![r] =
                        [status |-> head.status,
                         headers |->
                             LET others == {q \in Reqs \ {r} : mode[q] /\ out[q].headers # <<>>}
                                 kept == IF others = {} THEN <<>>
                                         ELSE out[CHOOSE q \in others : TRUE].headers
                             IN  kept \o streaming_response_headers(head.headers),
                         mimetype |->
                             headers_get(head.headers, "content-type", "text/plain"),
                         body |-> <<>>]]
    /\ goto(r, "HeadersSent")
    /\ UNCHANGED <<mode, exc, received, calls, gone, url, fwd, cls>>

\* proxy_streaming_response(), lines 87-116: the response head arrived
proxy_streaming_response(r) ==
    /\ pc[r] = "Connecting"
    /\ \E head \in StreamingHeads :
          /\ up' = [up EXCEPT ![r] = head]
          /\ first' = [first EXCEPT ![r] = IF @ = NoUpstream THEN head ELSE @]
          /\ out' = [out EXCEPT ![r] =
                        [status |-> head.status,
                         headers |-> streaming_response_headers(head.headers),
                         mimetype |->
                             headers_get(head.headers, "content-type", "text/plain"),
                         body |-> <<>>]]
    /\ goto(r, "HeadersSent")
    /\ UNCHANGED <<mode, exc, received, calls, gone, url, fwd, cls>>

\* proxy_streaming_response(), lines 118-123: the upstream call raised
streaming_raise(r) ==
    /\ pc[r] = "Connecting"
    /\ \E e \in StreamingExceptions :
          /\ exc' = [exc EXCEPT ![r] = e]
          /\ out' = [out EXCEPT ![r] = streaming_setup_error(e)]
    /\ goto(r, "ErrorClosed")
    /\ UNCHANGED <<mode, up, received, calls, first, gone, url, fwd, cls>>

\* the server starts iterating stream_generator() (line 107)
stream_start(r) ==
    /\ pc[r] = "HeadersSent"
    /\ goto(r, "Streaming")
    /\ UNCHANGED <<mode, up, exc, received, out, calls, first, gone, url, fwd, cls>>

\* relay putting the newest chunk first
relay_newest_first(body, chunk) ==
    IF chunk # "" THEN <<Chunk(chunk)>> \o body ELSE body

\* what stream_generator() writes for one item read (lines 108-109)
relay(body, chunk) == IF chunk # "" THEN Append(body, Chunk(chunk)) ELSE body

\* the caller closes its connection while the response is relayed
caller_disconnect(r) ==
    /\ pc[r] \in {"HeadersSent", "Streaming"}
    /\ ~gone[r]
    /\ gone' = [gone EXCEPT ![r] = TRUE]
    /\ UNCHANGED <<pc, hist, mode, up, exc, received, out, calls, first, url, fwd, cls>>

\* stream_generator writing each chunk to every response being streamed
stream_generator_shared_output(r) ==
    /\ pc[r] = "Streaming"
    /\ Len(received[r]) < MaxChunks
    /\ \E chunk \in Items :
          /\ received' = [received EXCEPT ![r] = Append(@, chunk)]
          /\ out' = [q \in Reqs |->
                        IF pc[q] = "Streaming"
                        THEN [out[q] EXCEPT !.body = relay(@, chunk)]
                        ELSE out[q]]
    /\ UNCHANGED <<pc, hist, mode, up, exc, calls, first, gone, url, fwd, cls>>

\* stream_generator(), lines 107-109: one turn of the loop.  A chunk
\* yielded after the caller has gone is not delivered: the server's write
\* fails and it closes the generator, which ends the upstream read.
stream_generator(r) ==
    /\ pc[r] = "Streaming"
    /\ Len(received[r]) < MaxChunks
    /\ \E chunk \in Items :
          /\ received' = [received EXCEPT ![r] = Append(@, chunk)]
          /\ IF gone[r] /\ chunk # ""
             THEN /\ out' = out
                  /\ goto(r, "ErrorClosed")
             ELSE /\ out' = [out EXCEPT ![r].body = relay(@, chunk)]
                  /\ UNCHANGED <<pc, hist>>
    /\ UNCHANGED <<mode, up, exc, calls, first, gone, url, fwd, cls>>

\* stream_generator(), line 107: the upstream body ended
stream_end(r) ==
    /\ pc[r] = "Streaming"
    /\ goto(r, "Completed")
    /\ UNCHANGED <<mode, up, exc, received, out, calls, first, gone, url, fwd, cls>>

\* stream_generator(), line 107: iter_content() raised; nothing catches it
stream_raise(r) ==
    /\ pc[r] = "Streaming"
    /\ \E e \in IterExceptions : exc' = [exc EXCEPT ![r] = e]
    /\ goto(r, "ErrorClosed")
    /\ UNCHANGED <<mode, up, received, out, calls, first, gone, url, fwd, cls>>

\* two requests handled at once, each upstream call answered at once and
\* each caller staying to the end
Next ==
    \E r \in Reqs :
        \/ proxy(r)
        \/ buffered_return(r)
        \/ buffered_raise(r)
        \/ proxy_streaming_response(r)
        \/ streaming_raise(r)
        \/ stream_start(r)
        \/ stream_generator(r)
        \/ stream_end(r)
        \/ stream_raise(r)

Spec == Init /\ [][Next]_vars

\* one request followed through everything its upstream and its caller may
\* do: the upstream may also redirect, the caller may also leave
Solo == {"r1"}

NextFull ==
    \E r \in Solo :
        \/ proxy(r)
        \/ follow_redirect(r)
        \/ buffered_return(r)
        \/ buffered_raise(r)
        \/ proxy_streaming_response(r)
        \/ streaming_raise(r)
        \/ stream_start(r)
        \/ caller_disconnect(r)
        \/ stream_generator(r)
        \/ stream_end(r)
        \/ stream_raise(r)

SpecFull == Init /\ [][NextFull]_vars

\* the same with the handler's thread scheduled fairly: the steps that wait
\* for nothing outside the proxy are taken; the steps that wait for the
\* upstream are not forced, the streaming call having no read timeout
\* (timeout=(10, None), lines 59 and 94)
SpecLive ==
    /\ Init
    /\ [][NextFull]_vars
    /\ \A r \in Solo : WF_vars(proxy(r)) /\ WF_vars(stream_start(r))

(***************************************************************************)
(* The construction of the upstream URL on its own: an inbound request     *)
(* with any path and query string, in either mode.                         *)
(***************************************************************************)
InitUrl ==
    /\ pc = [r \in Reqs |-> "Idle"]
    /\ hist = [r \in Reqs |-> <<"Idle">>]
    /\ mode = [r \in Reqs |-> FALSE]
    /\ up = [r \in Reqs |-> NoUpstream]
    /\ exc = [r \in Reqs |-> ""]
    /\ received = [r \in Reqs |-> <<>>]
    /\ out = [r \in Reqs |-> NoResponse]
    /\ calls = [r \in Reqs |-> 0]
    /\ first = [r \in Reqs |-> NoUpstream]
    /\ gone = [r \in Reqs |-> FALSE]
    /\ fwd = NoFwd
    /\ cls = NoCls
    /\ \E p \in Paths, qs \in QueryStrings, s \in BOOLEAN :
          url = [phase |-> "inbound", path |-> p, query_string |-> qs,
                 streaming |-> s, target_url |-> <<>>, requested |-> <<>>]

\* proxy(), lines 130-132
build_target_url ==
    /\ url.phase = "inbound"
    /\ url' = [url EXCEPT !.phase = "built",
                          !.target_url = target_url(url.path, url.query_string)]
    /\ UNCHANGED <<reqvars, fwd, cls>>

\* proxy(), lines 147-155: the buffered upstream call
buffered_call ==
    /\ url.phase = "built"
    /\ ~url.streaming
    /\ url' = [url EXCEPT !.phase = "sent",
                          !.requested = prepare_url(url.target_url, url.query_string)]
    /\ UNCHANGED <<reqvars, fwd, cls>>

\* proxy_streaming_response(), lines 87-95: the streaming upstream call
streaming_call ==
    /\ url.phase = "built"
    /\ url.streaming
    /\ url' = [url EXCEPT !.phase = "sent",
                          !.requested = prepare_url(url.target_url, url.query_string)]
    /\ UNCHANGED <<reqvars, fwd, cls>>

NextUrl == build_target_url \/ buffered_call \/ streaming_call

SpecUrl == InitUrl /\ [][NextUrl]_vars

(***************************************************************************)
(* The forwarding header set on its own.  request.headers hands out each   *)
(* inbound header once, its name in the capitalised form the server gives  *)
(* it (Host, X-Test), so an inbound header list has no name twice.         *)
(***************************************************************************)
InboundNames == {"Host", "Connection", "Transfer-Encoding", "Accept", "X-Test"}

InboundValues == {"v1", "v2"}

RECURSIVE HeaderSeqs(_)
HeaderSeqs(n) ==
    IF n = 0 THEN {<<>>}
    ELSE LET shorter == HeaderSeqs(n - 1)
         IN  shorter \cup
             { Append(hs, <<k, v>>) :
                 hs \in {h \in shorter : Len(h) = n - 1},
                 k \in InboundNames, v \in InboundValues }

InboundHeaders ==
    { hs \in HeaderSeqs(MaxInHeaders) :
        \A i, j \in 1..Len(hs) : i # j => hs[i][1] # hs[j][1] }

\* the names line 137 leaves out
hop_by_hop == {"host", "connection", "transfer-encoding"}

\* is_hop_by_hop comparing the name as received, without lower()
is_hop_by_hop_as_received(key) == key \in hop_by_hop

\* key.lower() in ['host', 'connection', 'transfer-encoding'] (line 137)
is_hop_by_hop(key) == lower(key) \in hop_by_hop

\* headers[key] = value on a dict kept in insertion order (line 138)
dict_set(d, key, value) ==
    IF \E i \in 1..Len(d) : d[i][1] = key
    THEN [i \in 1..Len(d) |-> IF d[i][1] = key THEN <<key, value>> ELSE d[i]]
    ELSE Append(d, <<key, value>>)

\* the loop of lines 135-138
RECURSIVE forward_headers(_, _)
forward_headers(inbound, headers) ==
    IF inbound = <<>> THEN headers
    ELSE LET kv == Head(inbound)
         IN  forward_headers(Tail(inbound),
                             IF is_hop_by_hop(kv[1]) THEN headers
                             ELSE dict_set(headers, kv[1], kv[2]))

InitHeaders ==
    /\ pc = [r \in Reqs |-> "Idle"]
    /\ hist = [r \in Reqs |-> <<"Idle">>]
    /\ mode = [r \in Reqs |-> FALSE]
    /\ up = [r \in Reqs |-> NoUpstream]
    /\ exc = [r \in Reqs |-> ""]
    /\ received = [r \in Reqs |-> <<>>]
    /\ out = [r \in Reqs |-> NoResponse]
    /\ calls = [r \in Reqs |-> 0]
    /\ first = [r \in Reqs |-> NoUpstream]
    /\ gone = [r \in Reqs |-> FALSE]
    /\ url = NoUrl
    /\ cls = NoCls
    /\ \E hs \in InboundHeaders, s \in BOOLEAN :
          fwd = [phase |-> "inbound", inbound |-> hs, streaming |-> s,
                 headers |-> <<>>, sent |-> <<>>]

\* proxy(), lines 135-138
build_headers ==
    /\ fwd.phase = "inbound"
    /\ fwd' = [fwd EXCEPT !.phase = "built",
                          !.headers = forward_headers(fwd.inbound, <<>>)]
    /\ UNCHANGED <<reqvars, url, cls>>

\* proxy(), lines 147-150: headers=headers of the buffered call
buffered_call_headers ==
    /\ fwd.phase = "built"
    /\ ~fwd.streaming
    /\ fwd' = [fwd EXCEPT !.phase = "sent", !.sent = fwd.headers]
    /\ UNCHANGED <<reqvars, url, cls>>

\* proxy_streaming_response(), lines 87-90: headers=headers of the streaming call
streaming_call_headers ==
    /\ fwd.phase = "built"
    /\ fwd.streaming
    /\ fwd' = [fwd EXCEPT !.phase = "sent", !.sent = fwd.headers]
    /\ UNCHANGED <<reqvars, url, cls>>

NextHeaders == build_headers \/ buffered_call_headers \/ streaming_call_headers

SpecHeaders == InitHeaders /\ [][NextHeaders]_vars

(***************************************************************************)
(* The stream classifier on its own, on any inbound request.               *)
(***************************************************************************)
InitClassify ==
    /\ pc = [r \in Reqs |-> "Idle"]
    /\ hist = [r \in Reqs |-> <<"Idle">>]
    /\ mode = [r \in Reqs |-> FALSE]
    /\ up = [r \in Reqs |-> NoUpstream]
    /\ exc = [r \in Reqs |-> ""]
    /\ received = [r \in Reqs |-> <<>>]
    /\ out = [r \in Reqs |-> NoResponse]
    /\ calls = [r \in Reqs |-> 0]
    /\ first = [r \in Reqs |-> NoUpstream]
    /\ gone = [r \in Reqs |-> FALSE]
    /\ url = NoUrl
    /\ fwd = NoFwd
    /\ \E req \in InboundRequests :
          cls = [phase |-> "inbound", accept |-> req.accept,
                 stream_param |-> req.stream_param, body |-> req.body,
                 raised |-> FALSE, verdict |-> FALSE]

\* proxy(), line 142: if is_streaming_request()
classify ==
    /\ cls.phase = "inbound"
    /\ cls' = [cls EXCEPT !.phase = "done",
                          !.raised = is_streaming_request_raises(cls),
                          !.verdict = /\ ~is_streaming_request_raises(cls)
                                      /\ is_streaming_request(cls)]
    /\ UNCHANGED <<reqvars, url, fwd>>

NextClassify == classify

SpecClassify == InitClassify /\ [][NextClassify]_vars

(***************************************************************************)
(* Properties.                                                             *)
(***************************************************************************)
IsPrefix(p, q) == Len(p) <= Len(q) /\ SubSeq(q, 1, Len(p)) = p

\* the items of a body that are relayed upstream chunks
chunks_of(body) == SelectSeq(body, LAMBDA it : it.kind = "chunk")

\* the chunks among the items read from upstream: those that carry bytes
data_of(items) == SelectSeq(items, LAMBDA c : c # "")

\* the head of the upstream response was relayed for r
head_relayed(r) == \E i \in 1..Len(hist[r]) : hist[r][i] = "HeadersSent"

\* every value a header list gives for a header name, letter case ignored
header_values(hs, lname) ==
    LET sel == SelectSeq(hs, LAMBDA kv : lower(kv[1]) = lname)
    IN  [i \in 1..Len(sel) |-> sel[i][2]]

\* C1: in streaming mode the chunks delivered to the caller are, at every
\* moment, exactly the byte-carrying chunks read from this request's own
\* upstream so far, in the order read (so a prefix of the upstream
\* sequence), a step never withdraws a delivered item, and when the
\* upstream body ends normally the caller holds the whole sequence.
C1_Delivered(r) ==
    LET sent == chunks_of(out[r].body)
        got == data_of(received[r])
    IN  /\ Len(sent) <= Len(got)
        /\ \A i \in 1..Len(sent) : sent[i].data = got[i]
        /\ (pc[r] = "Completed" \/ ~gone[r]) => Len(sent) = Len(got)

C1_StreamOrder ==
    /\ [](\A r \in Reqs : mode[r] => C1_Delivered(r))
    /\ [][\A r \in Reqs : mode[r] => IsPrefix(out[r].body, out'[r].body)]_vars

C1_Witness ==
    \E r \in Reqs :
        /\ mode[r]
        /\ pc[r] = "Completed"
        /\ received[r] = <<"a", "b">>
        /\ out[r].body = <<Chunk("a"), Chunk("b")>>

\* C2: a streaming request whose upstream call fails with a connection
\* error before any chunk gets a body stream of exactly one server-sent
\* error event and no HTTP error status.
C2_SetupFailureIsOneEvent ==
    \A r \in Reqs :
        (/\ mode[r]
         /\ pc[r] = "ErrorClosed"
         /\ ~head_relayed(r)
         /\ isinstance(exc[r], "ConnectionError"))
        => /\ out[r].body =
                 <<SseEvent("Connection error",
                            <<"Unable to connect to llama.cpp server at ", LLAMA_SERVER>>)>>
           /\ out[r].status < 400

\* C3: a streaming run that fails while reading upstream chunks, after the
\* response head was relayed, ends with one final error event appended to
\* the chunks delivered before.
C3_MidStreamFailureIsFinalEvent ==
    \A r \in Reqs :
        (mode[r] /\ pc[r] = "ErrorClosed" /\ head_relayed(r))
        => /\ out[r].body # <<>>
           /\ out[r].body[Len(out[r].body)].kind = "sse"
           /\ C1_Delivered(r)

\* C4: in streaming mode a status-line marker naming the upstream status
\* is the first body item, ahead of every relayed chunk, when that status
\* is not 200; with status 200 the body holds no marker.
C4_StatusLineMarker ==
    \A r \in Reqs :
        (mode[r] /\ head_relayed(r))
        => IF up[r].status # 200
           THEN (out[r].body # <<>> \/ pc[r] = "Completed")
                => /\ out[r].body # <<>>
                   /\ out[r].body[1] = StatusLine(up[r].status)
           ELSE \A i \in 1..Len(out[r].body) : out[r].body[i].kind # "status-line"

\* the runs of the streaming state machine
StreamingPaths ==
    { <<"Idle", "Connecting", "HeadersSent", "Streaming", "Completed">>,
      <<"Idle", "Connecting", "HeadersSent", "Streaming", "ErrorClosed">>,
      <<"Idle", "Connecting", "ErrorClosed">> }

C5_StateMachine(r) ==
    /\ \E path \in StreamingPaths : IsPrefix(hist[r], path)
    /\ head_relayed(r) => up[r] # NoUpstream
    /\ chunks_of(out[r].body) # <<>> => head_relayed(r)

C6_OverriddenHeaders ==
    \A r \in Reqs :
        (mode[r] /\ head_relayed(r))
        => /\ out[r].status = up[r].status
           /\ header_values(out[r].headers, "cache-control") = <<"no-cache">>
           /\ header_values(out[r].headers, "connection") = <<"keep-alive">>

\* the four upstream headers the proxy does not relay
C7_Excluded == {"content-encoding", "content-length", "transfer-encoding", "connection"}

\* C7: a buffered request the upstream answered gets the upstream's status,
\* the upstream's body, and exactly the upstream's headers without
\* content-encoding, content-length, transfer-encoding and connection in
\* any letter case: each other header once with its value, none of the four.
C7_BufferedRoundTrip ==
    \A r \in Reqs :
        (~mode[r] /\ pc[r] = "Responded" /\ exc[r] = "")
        => LET uh == up[r].headers
               oh == out[r].headers
               kept == {i \in 1..Len(uh) : lower(uh[i][1]) \notin C7_Excluded}
           IN  /\ out[r].status = up[r].status
               /\ Len(received[r]) = 1
               /\ out[r].body = <<Chunk(received[r][1])>>
               /\ \A i \in kept : \E j \in 1..Len(oh) : oh[j] = uh[i]
               /\ \A j \in 1..Len(oh) :
                     /\ lower(oh[j][1]) \notin C7_Excluded
                     /\ \E i \in kept : uh[i] = oh[j]
               /\ Len(oh) = Cardinality(kept)

C7_Witness ==
    \E r \in Reqs :
        /\ ~mode[r]
        /\ pc[r] = "Responded"
        /\ up[r].status = 200
        /\ \E i \in 1..Len(up[r].headers) : up[r].headers[i][1] = "Content-Length"
        /\ out[r].headers = << <<"X-Test", "1">>, <<"Cache-Control", "max-age=60">> >>
        /\ out[r].body = <<Chunk("hello")>>

\* C8: a buffered request whose upstream is unreachable gets HTTP 502 with
\* a JSON body whose error is "Connection error" and whose message names
\* the configured upstream; nothing of an upstream answer is relayed.
C8_Unreachable502 ==
    \A r \in Reqs :
        (~mode[r] /\ pc[r] = "Responded" /\ exc[r] = "ConnectionError")
        => /\ out[r].status = 502
           /\ Len(out[r].body) = 1
           /\ out[r].body[1].kind = "json"
           /\ out[r].body[1].error = "Connection error"
           /\ \E i \in 1..Len(out[r].body[1].message) :
                 out[r].body[1].message[i] = LLAMA_SERVER
           /\ up[r] = NoUpstream
           /\ out[r].headers = <<>>

C8_Witness ==
    \E r \in Reqs :
        /\ ~mode[r]
        /\ pc[r] = "Responded"
        /\ exc[r] = "ConnectionError"
        /\ out[r].status = 502

\* C9: a buffered request whose upstream call times out, while connecting
\* or while waiting for the response, gets HTTP 504 with an {error,
\* message} body, never 502 or 500.
C9_Timeout504 ==
    \A r \in Reqs :
        (~mode[r] /\ pc[r] = "Responded" /\ isinstance(exc[r], "Timeout"))
        => /\ out[r].status = 504
           /\ Len(out[r].body) = 1
           /\ out[r].body[1].kind = "json"

\* C10: in both modes the URL requested from the upstream is the configured
\* base, "/", the path and, when the inbound query string is not empty, "?"
\* and that query string as written: once, nothing added or re-encoded.
C10_QueryVerbatim ==
    url.phase = "sent"
    => url.requested =
          <<LLAMA_SERVER, "/", url.path>> \o
             (IF url.query_string # <<>>
              THEN <<"?">> \o join(url.query_string)
              ELSE <<>>)

\* the three inbound headers the proxy does not forward
C11_HopByHop == {"host", "connection", "transfer-encoding"}

\* C11: in both modes the header set passed to the upstream call holds no
\* header named host, connection or transfer-encoding in any letter case,
\* and holds every other inbound header, once, with the value received.
C11_ForwardedHeaders ==
    fwd.phase = "sent"
    => LET ih == fwd.inbound
           sh == fwd.sent
           kept == {i \in 1..Len(ih) : lower(ih[i][1]) \notin C11_HopByHop}
       IN  /\ \A j \in 1..Len(sh) :
                 /\ lower(sh[j][1]) \notin C11_HopByHop
                 /\ \E i \in kept : ih[i] = sh[j]
           /\ \A i \in kept : \E j \in 1..Len(sh) : sh[j] = ih[i]
           /\ Len(sh) = Cardinality(kept)

C11_Witness ==
    /\ fwd.phase = "sent"
    /\ fwd.streaming
    /\ fwd.inbound = << <<"Host", "v1">>, <<"X-Test", "v2">> >>
    /\ fwd.sent = << <<"X-Test", "v2">> >>

\* the header and query signals of the request under classification: an
\* Accept header listing text/event-stream or application/x-ndjson, or a
\* stream parameter that is true, 1 or yes in any letter case
HeaderOrQuerySignal ==
    \/ \E i \in 1..Len(cls.accept) :
          cls.accept[i] \in {"text/event-stream", "application/x-ndjson"}
    \/ cls.stream_param \in {"true", "TRUE", "Yes", "1"}

\* C12: the classifier never raises, answers true whenever the Accept
\* header or the stream parameter signals streaming, whatever the body is,
\* and on a body that is not JSON or is malformed JSON its verdict is
\* exactly the header/query verdict.
C12_HeaderQueryVerdict ==
    cls.phase = "done"
    => /\ ~cls.raised
       /\ HeaderOrQuerySignal => cls.verdict
       /\ (~cls.body.is_json \/ cls.body.parse = "malformed")
          => (cls.verdict <=> HeaderOrQuerySignal)

C12_Witness ==
    /\ cls.phase = "done"
    /\ cls.stream_param = "TRUE"
    /\ cls.accept = <<>>
    /\ cls.body.is_json
    /\ cls.body.parse = "malformed"
    /\ cls.verdict

\* the JSON values Python takes for true
C13_Truthy == {"true", "1", "'no'"}

\* C13 as stated: with no streaming Accept header and no streaming query
\* parameter, a body that is valid JSON with a mapping at top level is
\* classified streaming exactly when the mapping's stream value is truthy.
C13_JsonBodyVerdict ==
    (cls.phase = "done" /\ ~HeaderOrQuerySignal /\ cls.body.parse = "dict")
    => (cls.verdict <=> cls.body.stream \in C13_Truthy)

\* C13 amended: the same, for a request whose Content-Type announces JSON
\* (request.is_json); a JSON body sent under another content type is not
\* looked at and the verdict is false.
C13_JsonContentTypeVerdict ==
    (cls.phase = "done" /\ ~HeaderOrQuerySignal /\ cls.body.parse = "dict")
    => IF cls.body.is_json
       THEN cls.verdict <=> cls.body.stream \in C13_Truthy
       ELSE ~cls.verdict

C13_Witness ==
    /\ cls.phase = "done"
    /\ ~HeaderOrQuerySignal
    /\ cls.body = [is_json |-> TRUE, parse |-> "dict", stream |-> "1"]
    /\ cls.verdict
\* a request's run is over: nothing more is called, read or written for it
finished(r) == pc[r] \in {"Responded", "Completed", "ErrorClosed"}

\* the caller was told of a failure: an HTTP error response built by
\* jsonify, or a server-sent error event closing the body
failure_surfaced(r) ==
    \/ out[r].status >= 400 /\ out[r].mimetype = "application/json"
    \/ /\ out[r].body # <<>>
       /\ out[r].body[Len(out[r].body)].kind = "sse"

\* C14: once an upstream call or read of a request has failed, in either
\* mode, the run is over (no further upstream call is made for it) and the
\* caller holds an HTTP error response or an in-stream error event.
C14_FailureSurfaced ==
    \A r \in Reqs :
        exc[r] # "" => finished(r) /\ failure_surfaced(r)

\* C15: on the buffered path an upstream redirect is not followed: the one
\* upstream call made is the only one, and when its answer is a redirect
\* the caller gets that status and that answer's headers (Location with
\* them), the excluded ones apart.
C15_RedirectNotFollowed ==
    \A r \in Reqs :
        (~mode[r] /\ pc[r] \in {"Calling", "Responded"})
        => /\ calls[r] = 1
           /\ (pc[r] = "Responded" /\ up[r] \in RedirectHeads)
              => /\ first[r] = up[r]
                 /\ out[r].status = up[r].status
                 /\ header_values(out[r].headers, "location")
                       = header_values(up[r].headers, "location")
                 /\ \A i \in 1..Len(out[r].headers) :
                       \E j \in 1..Len(up[r].headers) :
                           out[r].headers[i] = up[r].headers[j]

C15_Witness ==
    \E r \in Reqs :
        /\ ~mode[r]
        /\ pc[r] = "Responded"
        /\ up[r].status = 302
        /\ out[r].status = 302
        /\ out[r].headers = << <<"Location", "/next">> >>
        /\ calls[r] = 1

\* C19: on the streaming path one upstream call is made per request, also
\* when the upstream answers with a redirect: the status and headers
\* relayed to the caller are those of the answer to that one call.
C19_OneUpstreamCall ==
    \A r \in Reqs :
        mode[r]
        => /\ calls[r] <= 1
           /\ head_relayed(r)
              => /\ out[r].status = first[r].status
                 /\ out[r].headers = streaming_response_headers(first[r].headers)

\* C16: once the caller of a streaming response has gone, the handler
\* eventually stops reading the upstream: the run reaches Completed or
\* ErrorClosed, where the upstream connection is let go.
C16_Cancellation ==
    \A r \in Solo :
        (mode[r] /\ gone[r]) ~> (pc[r] \in {"Completed", "ErrorClosed"})

\* everything the handler of request r holds
own(r) ==
    <<pc[r], hist[r], mode[r], up[r], exc[r], received[r], out[r],
      calls[r], first[r], gone[r]>>

\* C17: whatever the interleaving of two requests handled at once, a step
\* of one handler leaves everything of the other request as it was (no
\* handler writes what another reads), and the chunks in a request's
\* response are those read from its own upstream, no more: none of the
\* other request's chunks appears in it.
C17_NoInterference ==
    /\ [][\E r \in Reqs : \A q \in Reqs \ {r} : own(q)' = own(q)]_vars
    /\ [](\A r \in Reqs :
             mode[r] =>
                 [i \in 1..Len(chunks_of(out[r].body)) |-> chunks_of(out[r].body)[i].data]
                     = data_of(received[r]))

C17_Witness ==
    /\ pc["r1"] = "Completed" /\ pc["r2"] = "Completed"
    /\ received["r1"] = <<"a", "a">> /\ received["r2"] = <<"b">>
    /\ out["r1"].body = <<Chunk("a"), Chunk("a")>>
    /\ out["r2"].body = <<Chunk("b")>>

\* the caller of r has been given a status and headers
answered(r) == out[r] # NoResponse

\* C18: two runs taking the same path (as the same inbound request does)
\* whose upstream answers the same, or fails the same, give their callers
\* the same status and the same headers, whatever the other run does
\* before or in between.
C18_Repeatable ==
    \A r, q \in Reqs :
        (/\ answered(r) /\ answered(q)
         /\ mode[r] = mode[q]
         /\ up[r] = up[q]
         /\ (up[r] = NoUpstream => exc[r] = exc[q]))
        => /\ out[r].status = out[q].status
           /\ out[r].headers = out[q].headers

C18_Witness ==
    /\ mode["r1"] /\ mode["r2"]
    /\ pc["r1"] = "Completed" /\ pc["r2"] = "Streaming"
    /\ up["r1"] = up["r2"]
    /\ up["r1"] = [status |-> 404, headers |-> << <<"X-Test", "1">> >>]
    /\ received["r1"] # received["r2"]
    /\ out["r1"].status = out["r2"].status
    /\ out["r1"].headers = out["r2"].headers

====
